---- MODULE Spec2Model ----
(***************************************************************************)
(* A model of the voronoi_map backend: the /generate-map handler           *)
(* (backend/main.py, api_generate_map) and the map generator               *)
(* (backend/algorithm.py, generate_voronoi_map).                           *)
(*                                                                         *)
(* Numbers.  Angles are integers in millidegrees (1 degree = 1000), so the *)
(* 5% margin and the 10% padding of whole-degree bounds are exact.  The    *)
(* trigonometric functions are fixed-point, 10000 standing for 1.0: a sine *)
(* table at whole degrees, interpolated linearly in between.  The grid of  *)
(* lat_n x lon_n samples is observed on a down-sampled set of rows and     *)
(* columns (GridSamples evenly spread indices per axis, the first and the  *)
(* last always among them).                                                *)
(***************************************************************************)
EXTENDS Integers, Sequences, FiniteSets, TLC

\* the two requests of the model; request 2 only exists under SpecConc
Req == {1, 2}

\* number of observed rows (and columns) of the sampling grid
GridSamples == 3

\* fixed point: one degree in millidegrees, and 1.0 of the trigonometry
Deg == 10 * 100
One == 100 * 100

-----------------------------------------------------------------------------
(* numpy / python arithmetic                                               *)

Abs(a) == IF a < 0 THEN -a ELSE a
Max(a, b) == IF a >= b THEN a ELSE b
Min(a, b) == IF a <= b THEN a ELSE b

\* p / q rounded to the nearest, symmetric about 0
RoundDiv(p, q) == IF p >= 0 THEN (2 * p + q) \div (2 * q)
                  ELSE -((2 * (-p) + q) \div (2 * q))

\* sin(d degrees) * 10000 for d = 0..90
SinTab == <<
      0, 175, 349, 523, 698, 872, 1045, 1219, 1392, 1564,
      1736, 1908, 2079, 2250, 2419, 2588, 2756, 2924, 3090, 3256,
      3420, 3584, 3746, 3907, 4067, 4226, 4384, 4540, 4695, 4848,
      5000, 5150, 5299, 5446, 5592, 5736, 5878, 6018, 6157, 6293,
      6428, 6561, 6691, 6820, 6947, 7071, 7193, 7314, 7431, 7547,
      7660, 7771, 7880, 7986, 8090, 8192, 8290, 8387, 8480, 8572,
      8660, 8746, 8829, 8910, 8988, 9063, 9135, 9205, 9272, 9336,
      9397, 9455, 9511, 9563, 9613, 9659, 9703, 9744, 9781, 9816,
      9848, 9877, 9903, 9925, 9945, 9962, 9976, 9986, 9994, 9998,
      10000 >>

\* sine of an angle of the first quadrant, 0 <= a <= 90 degrees
SinQ(a) ==
    LET d == a \div Deg
        f == a % Deg
    IN  IF f = 0 THEN SinTab[d + 1]
        ELSE SinTab[d + 1] + RoundDiv((SinTab[d + 2] - SinTab[d + 1]) * f, Deg)

\* np.sin(np.deg2rad(a)), a in millidegrees
Sin(a) ==
    LET m == a % (360 * Deg)
    IN  IF m <= 90 * Deg THEN SinQ(m)
        ELSE IF m <= 180 * Deg THEN SinQ(180 * Deg - m)
        ELSE IF m <= 270 * Deg THEN -SinQ(m - 180 * Deg)
        ELSE -SinQ(360 * Deg - m)

\* np.cos(np.deg2rad(a)), a in millidegrees
Cos(a) == Sin(a + 90 * Deg)

\* geo_to_cartesian: (lat, lon) to the unit sphere, one row of the result
geo_to_cartesian(lat_deg, lon_deg) ==
    << RoundDiv(Cos(lat_deg) * Cos(lon_deg), One),
       RoundDiv(Cos(lat_deg) * Sin(lon_deg), One),
       Sin(lat_deg) >>

\* squared Euclidean distance of two Cartesian points
Dist3D(p, q) ==
    (p[1] - q[1]) * (p[1] - q[1]) + (p[2] - q[2]) * (p[2] - q[2])
      + (p[3] - q[3]) * (p[3] - q[3])

\* np.linspace(start, stop, num)[i]; the last sample is stop itself
linspace(start, stop, num, i) ==
    IF i = num - 1 THEN stop
    ELSE start + (i * (stop - start)) \div (num - 1)

-----------------------------------------------------------------------------
(* the request form of POST /generate-map                                  *)

\* a JSON value of the extent field: null, an array, or a number.  items
\* holds the array's entries (a number's value); numeric is FALSE when the
\* entries are not numbers (strings)
ExtNull == [kind |-> "null", items |-> <<>>, numeric |-> TRUE]
ExtArray(s) == [kind |-> "array", items |-> s, numeric |-> TRUE]
ExtStrings(s) == [kind |-> "array", items |-> s, numeric |-> FALSE]
ExtNumber(v) == [kind |-> "number", items |-> <<v>>, numeric |-> TRUE]

\* four whole degrees, in millidegrees
Box(a, b, c, d) == << a * Deg, b * Deg, c * Deg, d * Deg >>

ExtentInputs ==
    { ExtNull,
      ExtArray(<<>>),
      ExtArray(<< Deg, 2 * Deg, 3 * Deg >>),
      ExtNumber(0),
      ExtNumber(5 * Deg),
      ExtStrings(<<0, 0, 0, 0>>),
      ExtArray(Box(0, 10, 0, 10)),
      ExtArray(Box(160, 180, 70, 90)),
      ExtArray(Box(5, 5, 0, 10)),
      ExtArray(Box(200, 300, 0, 10)) }

\* the points field once parsed: [lat, lon] pairs in millidegrees
Site(lat, lon) == << lat * Deg, lon * Deg >>

PointInputs ==
    { << Site(0, 179), Site(0, -179) >>,
      << Site(0, 150), Site(0, -179) >>,
      << Site(10, 20), Site(-30, 100), Site(10, 20) >>,
      << Site(5, 5), Site(80, 170), Site(-45, 0) >>,
      [i \in 1..17 |-> IF i \in {1, 17} THEN Site(10, 20) ELSE Site(-30, 90 + i)],
      << Site(0, 0) >>,
      [i \in 1..31 |-> Site(0, 0)] }

ResolutionInputs == {"low", "medium", "high", "ultra"}

\* an uploaded file: whether geopandas can read it, and its total_bounds
\* (min_lon, min_lat, max_lon, max_lat)
FileInputs ==
    { [ok |-> TRUE, bounds |-> Box(0, 0, 10, 10)],
      [ok |-> TRUE, bounds |-> Box(-180, -90, 180, 90)],
      [ok |-> FALSE, bounds |-> Box(0, 0, 0, 0)] }

\* the optional plugin upload and the draw_plugin flag
NoPlugin == [present |-> FALSE, filename |-> "", ok |-> FALSE]
PluginInputs ==
    { [plugin_file |-> NoPlugin, draw_plugin |-> FALSE],
      [plugin_file |-> NoPlugin, draw_plugin |-> TRUE],
      [plugin_file |-> [present |-> TRUE, filename |-> "a.json", ok |-> TRUE],
       draw_plugin |-> TRUE],
      [plugin_file |-> [present |-> TRUE, filename |-> "a.json", ok |-> FALSE],
       draw_plugin |-> TRUE],
      [plugin_file |-> [present |-> TRUE, filename |-> "a.json", ok |-> FALSE],
       draw_plugin |-> FALSE] }

\* a request: the form fields and the two uploads
Request(json_ok, points, extent, ncolors, resolution, filename, file, plugin) ==
    [ json_ok |-> json_ok, points |-> points, extent |-> extent,
      colors |-> ncolors, resolution |-> resolution,
      filename |-> filename, file |-> file,
      plugin_file |-> plugin.plugin_file, draw_plugin |-> plugin.draw_plugin ]

\* every request of the single-request specification
Requests ==
    { Request(j, p, e, n, res, "a.json", f, pl) :
        j \in BOOLEAN, p \in PointInputs, e \in ExtentInputs,
        n \in {2, 3, 17}, res \in ResolutionInputs, f \in FileInputs,
        pl \in PluginInputs }

-----------------------------------------------------------------------------
(* state                                                                   *)

VARIABLES
    request,        \* request[r]: the form r was posted with
    pc,             \* pc[r]: where request r is in handler and generator
    uploads,        \* the files of UPLOAD_DIR, by name
    args,           \* args[r]: file_path, plugin_path, lat_n, lon_n
    world,          \* world[r]: the reference dataset the generator read
    default_loads,  \* default_loads[r]: loads of the built-in dataset
    extent,         \* extent[r]: the extent after the range logic
    grid,           \* grid[r]: lats and lons at the observed indices
    tree,           \* tree[r]: the order in which the index holds the sites
    nearest_city,   \* nearest_city[r]: shape and labels of the raster
    plugin_map,     \* plugin_map[r]: the plugin dataset the generator read
    swallowed,      \* swallowed[r]: steps whose exception was only printed
    response        \* response[r]: what the caller received

vars == << request, pc, uploads, args, world, default_loads, extent, grid,
           tree, nearest_city, plugin_map, swallowed, response >>

\* values before they are assigned
NoFile == [owner |-> 0, kind |-> "none", ok |-> FALSE, bounds |-> Box(0, 0, 0, 0)]
NoArgs == [file_path |-> "", has_plugin |-> FALSE, plugin_path |-> "",
           lat_n |-> 0, lon_n |-> 0]
NoGrid == [lats |-> <<>>, lons |-> <<>>]
NoRaster == [shape |-> <<0, 0>>, labels |-> <<>>]
NoResponse == [status |-> 0, detail |-> "", image |-> NoRaster,
               world |-> NoFile, plugin |-> NoFile]

\* the built-in dataset, naturalearth_lowres
DefaultWorld == [owner |-> 0, kind |-> "default", ok |-> TRUE,
                 bounds |-> << -180 * Deg, -90 * Deg, 180 * Deg, 83645 >>]

InitWith(reqs) ==
    /\ request = reqs
    /\ pc = [r \in Req |-> IF reqs[r].filename = "" THEN "absent" ELSE "request"]
    /\ uploads = [p \in {} |-> NoFile]
    /\ args = [r \in Req |-> NoArgs]
    /\ world = [r \in Req |-> NoFile]
    /\ default_loads = [r \in Req |-> 0]
    /\ extent = [r \in Req |-> ExtNull]
    /\ grid = [r \in Req |-> NoGrid]
    /\ tree = [r \in Req |-> <<>>]
    /\ nearest_city = [r \in Req |-> NoRaster]
    /\ plugin_map = [r \in Req |-> NoFile]
    /\ swallowed = [r \in Req |-> {}]
    /\ response = [r \in Req |-> NoResponse]

\* no request: the slot of request 2 under the single-request specification
Absent == Request(FALSE, <<>>, ExtNull, 0, "", "", [ok |-> FALSE, bounds |-> Box(0, 0, 0, 0)],
                  [plugin_file |-> NoPlugin, draw_plugin |-> FALSE])

Init == \E q \in Requests : InitWith([r \in Req |-> IF r = 1 THEN q ELSE Absent])

-----------------------------------------------------------------------------
(* backend/main.py                                                         *)

\* a lookup that falls back to the lowest tier
RESOLUTION_MAP_get_low(resolution) ==
    CASE resolution = "low" -> << 600, 1200 >>
      [] resolution = "medium" -> << 1200, 2400 >>
      [] resolution = "high" -> << 2400, 4800 >>
      [] OTHER -> << 600, 1200 >>

\* RESOLUTION_MAP.get(resolution, (1200, 2400))
RESOLUTION_MAP_get(resolution) ==
    CASE resolution = "low" -> << 600, 1200 >>
      [] resolution = "medium" -> << 1200, 2400 >>
      [] resolution = "high" -> << 2400, 4800 >>
      [] OTHER -> << 1200, 2400 >>

\* the bounds of the number of points
MinPoints == 2
MaxPoints == 30

\* open(path, "wb") and copyfileobj: the file at path now holds content
WriteFile(fs, path, content) ==
    [p \in DOMAIN fs \cup {path} |-> IF p = path THEN content ELSE fs[p]]

\* the uploads directory after the handler saved the uploads of request r:
\* the main file under its own name, then the plugin under "plugin_" + name
SaveUploads(fs, r, q) ==
    LET main == [owner |-> r, kind |-> "main", ok |-> q.file.ok,
                 bounds |-> q.file.bounds]
        plug == [owner |-> r, kind |-> "plugin", ok |-> q.plugin_file.ok,
                 bounds |-> Box(0, 0, 0, 0)]
        fs1 == WriteFile(fs, q.filename, main)
    IN  IF q.plugin_file.present
        THEN WriteFile(fs1, "plugin_" \o q.plugin_file.filename, plug)
        ELSE fs1

\* raise HTTPException(status_code, detail)
HTTPException(status_code, detail) ==
    [status |-> status_code, detail |-> detail, image |-> NoRaster,
     world |-> NoFile, plugin |-> NoFile]

Respond(r, resp) ==
    /\ response' = [response EXCEPT ![r] = resp]
    /\ pc' = [pc EXCEPT ![r] = "done"]

\* json.loads of points, extent or colors raises JSONDecodeError
ApiJsonError(r) ==
    /\ pc[r] = "request"
    /\ ~request[r].json_ok
    /\ Respond(r, HTTPException(400, "JSON format error"))
    /\ UNCHANGED << request, uploads, args, world, default_loads, extent, grid,
                    tree, nearest_city, plugin_map, swallowed >>

\* fewer than 2 or more than 30 points
ApiPointsCount(r) ==
    /\ pc[r] = "request"
    /\ request[r].json_ok
    /\ \/ Len(request[r].points) < MinPoints
       \/ Len(request[r].points) > MaxPoints
    /\ Respond(r, HTTPException(400, "Points count must be between 2 and 30"))
    /\ UNCHANGED << request, uploads, args, world, default_loads, extent, grid,
                    tree, nearest_city, plugin_map, swallowed >>

\* the number of colors differs from the number of points
ApiColorsCount(r) ==
    /\ pc[r] = "request"
    /\ request[r].json_ok
    /\ Len(request[r].points) >= MinPoints
    /\ Len(request[r].points) <= MaxPoints
    /\ request[r].colors # Len(request[r].points)
    /\ Respond(r, HTTPException(400, "Colors count mismatch"))
    /\ UNCHANGED << request, uploads, args, world, default_loads, extent, grid,
                    tree, nearest_city, plugin_map, swallowed >>

\* the request is accepted: the uploads are saved, the grid size is looked
\* up, and generate_voronoi_map is handed to the thread pool
ApiStart(r) ==
    /\ pc[r] = "request"
    /\ request[r].json_ok
    /\ Len(request[r].points) >= MinPoints
    /\ Len(request[r].points) <= MaxPoints
    /\ request[r].colors = Len(request[r].points)
    /\ uploads' = SaveUploads(uploads, r, request[r])
    /\ args' = [args EXCEPT ![r] =
                 [file_path |-> request[r].filename,
                  has_plugin |-> request[r].plugin_file.present,
                  plugin_path |-> IF request[r].plugin_file.present
                                  THEN "plugin_" \o request[r].plugin_file.filename
                                  ELSE "",
                  lat_n |-> RESOLUTION_MAP_get(request[r].resolution)[1],
                  lon_n |-> RESOLUTION_MAP_get(request[r].resolution)[2]]]
    /\ pc' = [pc EXCEPT ![r] = "read_world"]
    /\ UNCHANGED << request, world, default_loads, extent, grid, tree,
                    nearest_city, plugin_map, swallowed, response >>

-----------------------------------------------------------------------------
(* backend/algorithm.py, generate_voronoi_map                              *)

\* gpd.read_file(geojson_path) succeeds
ReadWorld(r) ==
    /\ pc[r] = "read_world"
    /\ uploads[args[r].file_path].ok
    /\ world' = [world EXCEPT ![r] = uploads[args[r].file_path]]
    /\ pc' = [pc EXCEPT ![r] = "extent"]
    /\ UNCHANGED << request, uploads, args, default_loads, extent, grid, tree,
                    nearest_city, plugin_map, swallowed, response >>

\* a generator without the fallback: the exception of read_file leaves it
ReadWorldNoFallback(r) ==
    /\ pc[r] = "read_world"
    /\ ~uploads[args[r].file_path].ok
    /\ pc' = [pc EXCEPT ![r] = "raised"]
    /\ UNCHANGED << request, uploads, args, world, default_loads, extent, grid,
                    tree, nearest_city, plugin_map, swallowed, response >>

\* gpd.read_file(geojson_path) raises: the exception is printed and the
\* built-in dataset is read, which succeeds or raises out of the generator
ReadWorldFallback(r) ==
    /\ pc[r] = "read_world"
    /\ ~uploads[args[r].file_path].ok
    /\ default_loads' = [default_loads EXCEPT ![r] = @ + 1]
    /\ swallowed' = [swallowed EXCEPT ![r] = @ \cup {"read_world"}]
    /\ \E available \in BOOLEAN :
         IF available
         THEN /\ world' = [world EXCEPT ![r] = DefaultWorld]
              /\ pc' = [pc EXCEPT ![r] = "extent"]
         ELSE /\ world' = world
              /\ pc' = [pc EXCEPT ![r] = "raised"]
    /\ UNCHANGED << request, uploads, args, extent, grid, tree, nearest_city,
                    plugin_map, response >>

\* python's `not extent`
Falsy(e) ==
    \/ e.kind = "null"
    \/ e.kind = "array" /\ e.items = <<>>
    \/ e.kind = "number" /\ e.items[1] = 0

\* the 5% margin around total_bounds, clamped (lines 52-63)
auto_extent(total_bounds) ==
    LET min_lon == total_bounds[1]
        min_lat == total_bounds[2]
        max_lon == total_bounds[3]
        max_lat == total_bounds[4]
        margin_x == ((max_lon - min_lon) * 5) \div 100
        margin_y == ((max_lat - min_lat) * 5) \div 100
    IN  << Max(-180 * Deg, min_lon - margin_x),
           Min(180 * Deg, max_lon + margin_x),
           Max(-90 * Deg, min_lat - margin_y),
           Min(90 * Deg, max_lat + margin_y) >>

\* `not extent or len(extent) != 4` evaluates without raising
ExtentTestable(e) == Falsy(e) \/ e.kind = "array"

\* `not extent or len(extent) != 4`
ExtentMissing(e) == Falsy(e) \/ Len(e.items) # 4

\* the range logic: a missing extent is computed from the dataset
ResolveExtent(r) ==
    /\ pc[r] = "extent"
    /\ ExtentTestable(request[r].extent)
    /\ extent' = [extent EXCEPT ![r] =
                    IF ExtentMissing(request[r].extent)
                    THEN ExtArray(auto_extent(world[r].bounds))
                    ELSE request[r].extent]
    /\ pc' = [pc EXCEPT ![r] = "grid"]
    /\ UNCHANGED << request, uploads, args, world, default_loads, grid, tree,
                    nearest_city, plugin_map, swallowed, response >>

\* len() of a number raises TypeError
ResolveExtentRaises(r) ==
    /\ pc[r] = "extent"
    /\ ~ExtentTestable(request[r].extent)
    /\ pc' = [pc EXCEPT ![r] = "raised"]
    /\ UNCHANGED << request, uploads, args, world, default_loads, extent, grid,
                    tree, nearest_city, plugin_map, swallowed, response >>

\* the window the grid spans: the extent padded by 10% and clamped
\* (lines 70-78), as << lat_start, lat_stop, lon_start, lon_stop >>
padded_window(e) ==
    LET view_min_lon == e[1]
        view_max_lon == e[2]
        view_min_lat == e[3]
        view_max_lat == e[4]
        grid_pad_x == (view_max_lon - view_min_lon) \div 10
        grid_pad_y == (view_max_lat - view_min_lat) \div 10
    IN  << Max(-90 * Deg, view_min_lat - grid_pad_y),
           Min(90 * Deg, view_max_lat + grid_pad_y),
           Max(-180 * Deg, view_min_lon - grid_pad_x),
           Min(180 * Deg, view_max_lon + grid_pad_x) >>

\* the observed indices of an axis of num samples
SampleIdx(num) ==
    { (k * (num - 1)) \div (GridSamples - 1) : k \in 0..(GridSamples - 1) }

\* lats and lons (lines 77-78) at the observed indices
grid_of(e, lat_n, lon_n) ==
    LET w == padded_window(e)
    IN  [ lats |-> [i \in SampleIdx(lat_n) |-> linspace(w[1], w[2], lat_n, i)],
          lons |-> [j \in SampleIdx(lon_n) |-> linspace(w[3], w[4], lon_n, j)] ]

\* geo_to_cartesian(cities_coords[:, 0], cities_coords[:, 1])
city_points_cartesian(points) ==
    [i \in 1..Len(points) |-> geo_to_cartesian(points[i][1], points[i][2])]

\* cKDTree(city_points_cartesian): the default leafsize of the tree
leafsize == 16

\* the orders in which a cKDTree over n points may hold them.  Up to
\* leafsize points stay in one leaf, in the order given; more points are
\* split over two leaves, and a query reaches the leaf on its side first,
\* which may be either
TreeOrders(n) ==
    IF n <= leafsize
    THEN { [i \in 1..n |-> i] }
    ELSE { [i \in 1..n |-> ((i + k - 1) % n) + 1] : k \in {0, leafsize} }

\* the place of site i in the order of the tree
Place(order, i) == CHOOSE k \in 1..Len(order) : order[k] = i

\* a query for the planar nearest site, in degrees of latitude and longitude
\* (the usual wrong metric: it splits the antimeridian)
tree_query_planar(order, cities, g, points, lat, lon) ==
    LET d(i) == Abs(points[i][1] - lat) + Abs(points[i][2] - lon)
        near == { i \in 1..Len(points) : \A j \in 1..Len(points) : d(i) <= d(j) }
    IN  (CHOOSE i \in near : \A j \in near : i <= j) - 1

\* a query that returns the position of the site, counted from 1
tree_query_one_based(order, cities, g, points, lat, lon) ==
    LET d == [i \in 1..Len(cities) |-> Dist3D(g, cities[i])]
        near == { i \in 1..Len(cities) : \A j \in 1..Len(cities) : d[i] <= d[j] }
    IN  CHOOSE i \in near : \A j \in near : Place(order, i) <= Place(order, j)

\* a query that finds no neighbour (the index n) unless one site is
\* strictly nearest
tree_query_strict(order, cities, g, points, lat, lon) ==
    LET d == [i \in 1..Len(cities) |-> Dist3D(g, cities[i])]
        near == { i \in 1..Len(cities) : \A j \in 1..Len(cities) : d[i] <= d[j] }
    IN  IF Cardinality(near) = 1 THEN (CHOOSE i \in near : TRUE) - 1
        ELSE Len(cities)

\* tree.query(g, k=1): the index of a nearest site.  Of several nearest
\* sites the one the tree reaches first is returned; which one that is
\* depends on how the tree holds the points, not on their indices
tree_query(order, cities, g, points, lat, lon) ==
    LET d == [i \in 1..Len(cities) |-> Dist3D(g, cities[i])]
        near == { i \in 1..Len(cities) : \A j \in 1..Len(cities) : d[i] <= d[j] }
    IN  (CHOOSE i \in near :
           \A j \in near : Place(order, i) <= Place(order, j)) - 1

\* indices.reshape(lon_grid.shape): the labels at the observed samples,
\* and the shape of meshgrid(lons, lats)
raster_of(order, points, g, lat_n, lon_n) ==
    LET cities == city_points_cartesian(points)
    IN  [ shape |-> << lat_n, lon_n >>,
          labels |-> [ c \in (DOMAIN g.lats) \X (DOMAIN g.lons) |->
                         tree_query(order, cities,
                                    geo_to_cartesian(g.lats[c[1]], g.lons[c[2]]),
                                    points, g.lats[c[1]], g.lons[c[2]]) ] ]

\* grid generation and the nearest-neighbour query (lines 67-89)
BuildGrid(r) ==
    /\ pc[r] = "grid"
    /\ extent[r].numeric
    /\ \E order \in TreeOrders(Len(request[r].points)) :
         LET g == grid_of(extent[r].items, args[r].lat_n, args[r].lon_n)
         IN  /\ grid' = [grid EXCEPT ![r] = g]
             /\ tree' = [tree EXCEPT ![r] = order]
             /\ nearest_city' = [nearest_city EXCEPT ![r] =
                  raster_of(order, request[r].points, g,
                            args[r].lat_n, args[r].lon_n)]
    /\ pc' = [pc EXCEPT ![r] = "draw"]
    /\ UNCHANGED << request, uploads, args, world, default_loads, extent,
                    plugin_map, swallowed, response >>

\* a generator that prints the TypeError of line 73 and goes on to draw
BuildGridSwallows(r) ==
    /\ pc[r] = "grid"
    /\ ~extent[r].numeric
    /\ swallowed' = [swallowed EXCEPT ![r] = @ \cup {"grid"}]
    /\ pc' = [pc EXCEPT ![r] = "draw"]
    /\ UNCHANGED << request, uploads, args, world, default_loads, extent, grid,
                    tree, nearest_city, plugin_map, response >>

\* the entries of a 4-element extent are not numbers: the subtraction of
\* line 73 raises TypeError
BuildGridRaises(r) ==
    /\ pc[r] = "grid"
    /\ ~extent[r].numeric
    /\ pc' = [pc EXCEPT ![r] = "raised"]
    /\ UNCHANGED << request, uploads, args, world, default_loads, extent, grid,
                    tree, nearest_city, plugin_map, swallowed, response >>

\* drawing, (A) to (F); the plugin map is read when asked for and uploaded.
\* plugin_map holds the file read_file was applied to
DrawMaps(r) ==
    /\ pc[r] = "draw"
    /\ IF request[r].draw_plugin /\ args[r].has_plugin
       THEN /\ plugin_map' = [plugin_map EXCEPT ![r] = uploads[args[r].plugin_path]]
            /\ swallowed' = [swallowed EXCEPT ![r] =
                 IF uploads[args[r].plugin_path].ok THEN @ ELSE @ \cup {"plugin"}]
       ELSE UNCHANGED << plugin_map, swallowed >>
    /\ pc' = [pc EXCEPT ![r] = "set_extent"]
    /\ UNCHANGED << request, uploads, args, world, default_loads, extent, grid,
                    tree, nearest_city, response >>

\* (G) ax.set_extent, whose exception is printed, then savefig and return
SetExtentAndSave(r) ==
    /\ pc[r] = "set_extent"
    /\ \E raises \in BOOLEAN :
         swallowed' = [swallowed EXCEPT ![r] =
                         IF raises THEN @ \cup {"set_extent"} ELSE @]
    /\ pc' = [pc EXCEPT ![r] = "returned"]
    /\ UNCHANGED << request, uploads, args, world, default_loads, extent, grid,
                    tree, nearest_city, plugin_map, response >>

-----------------------------------------------------------------------------
(* backend/main.py: the handler after the thread pool                      *)

\* StreamingResponse(img_buf, media_type="image/png")
ApiRespondImage(r) ==
    /\ pc[r] = "returned"
    /\ Respond(r, [status |-> 200, detail |-> "image/png",
                   image |-> nearest_city[r], world |-> world[r],
                   plugin |-> plugin_map[r]])
    /\ UNCHANGED << request, uploads, args, world, default_loads, extent, grid,
                    tree, nearest_city, plugin_map, swallowed >>

\* except Exception: raise HTTPException(status_code=500, detail=str(e))
ApiRespondError(r) ==
    /\ pc[r] = "raised"
    /\ Respond(r, HTTPException(500, "str(e)"))
    /\ UNCHANGED << request, uploads, args, world, default_loads, extent, grid,
                    tree, nearest_city, plugin_map, swallowed >>

Next ==
    \E r \in Req :
        \/ ApiJsonError(r)
        \/ ApiPointsCount(r)
        \/ ApiColorsCount(r)
        \/ ApiStart(r)
        \/ ReadWorld(r)
        \/ ReadWorldFallback(r)
        \/ ResolveExtent(r)
        \/ ResolveExtentRaises(r)
        \/ BuildGrid(r)
        \/ BuildGridRaises(r)
        \/ DrawMaps(r)
        \/ SetExtentAndSave(r)
        \/ ApiRespondImage(r)
        \/ ApiRespondError(r)

Spec == Init /\ [][Next]_vars

-----------------------------------------------------------------------------
(* two concurrent requests                                                 *)

\* well-formed requests whose uploads may carry the same names: the plugin
\* upload "a.json" is saved as "plugin_a.json", the name of a main upload
SharingRequests ==
    { Request(TRUE, << Site(0, 179), Site(0, -179) >>, ExtNull, 2, "low", name, f, pl) :
        name \in {"a.json", "plugin_a.json"},
        f \in FileInputs,
        pl \in { [plugin_file |-> NoPlugin, draw_plugin |-> FALSE],
                 [plugin_file |-> [present |-> TRUE, filename |-> "a.json", ok |-> TRUE],
                  draw_plugin |-> TRUE] } }

\* one request for each way a request ends in an error
FailingRequests ==
    { Request(j, p, e, 2, "low", "a.json", [ok |-> TRUE, bounds |-> Box(0, 0, 10, 10)],
              [plugin_file |-> NoPlugin, draw_plugin |-> FALSE]) :
        j \in BOOLEAN,
        p \in { << Site(0, 0) >>, << Site(0, 0), Site(0, 0), Site(0, 0) >>,
                << Site(0, 179), Site(0, -179) >> },
        e \in { ExtNumber(5 * Deg), ExtStrings(<<0, 0, 0, 0>>) } }

InitConc ==
    \E q1 \in SharingRequests \cup FailingRequests :
      \E q2 \in SharingRequests \cup FailingRequests :
        InitWith([r \in Req |-> IF r = 1 THEN q1 ELSE q2])

SpecConc == InitConc /\ [][Next]_vars

-----------------------------------------------------------------------------
(* properties                                                              *)

TypeOK == \A r \in Req : pc[r] \in {"absent", "request", "read_world", "extent",
             "grid", "draw", "set_extent", "returned", "raised", "done"}

\* request r has a label raster
HasRaster(r) == nearest_city[r] # NoRaster

\* the sites nearest to the sample at row i, column j of the grid of r
NearestSites(r, c) ==
    LET cities == city_points_cartesian(request[r].points)
        g == geo_to_cartesian(grid[r].lats[c[1]], grid[r].lons[c[2]])
        d == [i \in 1..Len(cities) |-> Dist3D(g, cities[i])]
    IN  { i \in 1..Len(cities) : \A j \in 1..Len(cities) : d[i] <= d[j] }

\* the observed samples of the grid of r
Samples(r) == DOMAIN nearest_city[r].labels

\* the label of sample c, as an index of request[r].points
Label(r, c) == nearest_city[r].labels[c] + 1

\* C1: every label written to the raster is the index of a site nearest to
\* the sample in 3-D distance between the geo_to_cartesian images, across
\* the antimeridian too, and every sample of the grid has a label
C1_LabelIsNearest ==
    \A r \in Req :
      HasRaster(r) =>
        /\ Samples(r) = (DOMAIN grid[r].lats) \X (DOMAIN grid[r].lons)
        /\ DOMAIN grid[r].lats = SampleIdx(args[r].lat_n)
        /\ DOMAIN grid[r].lons = SampleIdx(args[r].lon_n)
        /\ \A c \in Samples(r) :
             LET g == geo_to_cartesian(grid[r].lats[c[1]], grid[r].lons[c[2]])
                 site(i) == geo_to_cartesian(request[r].points[i][1],
                                             request[r].points[i][2])
                 i == Label(r, c)
             IN  /\ i \in 1..Len(request[r].points)
                 /\ \A j \in 1..Len(request[r].points) :
                      Dist3D(g, site(i)) <= Dist3D(g, site(j))

\* C1 witness: a sample on the antimeridian (lon 180) is labelled with a
\* site of negative longitude although a site of positive longitude is
\* nearer in degrees of longitude
C1_Witness ==
    \E r \in Req :
      /\ HasRaster(r)
      /\ \E c \in Samples(r) :
           /\ grid[r].lons[c[2]] = 180 * Deg
           /\ request[r].points[Label(r, c)][2] = -179 * Deg
           /\ \E j \in 1..Len(request[r].points) :
                request[r].points[j][2] = 150 * Deg

\* C2: the raster of an accepted request has the shape (lat_n, lon_n) of
\* its resolution and all its entries are integers in 0..N-1
C2_LabelsInRange ==
    \A r \in Req :
      HasRaster(r) =>
        /\ Len(request[r].points) >= MinPoints
        /\ Len(request[r].points) <= MaxPoints
        /\ request[r].colors = Len(request[r].points)
        /\ nearest_city[r].shape = RESOLUTION_MAP_get(request[r].resolution)
        /\ nearest_city[r].shape = << args[r].lat_n, args[r].lon_n >>
        /\ \A c \in Samples(r) :
             nearest_city[r].labels[c] \in 0..(Len(request[r].points) - 1)

\* C2 witness: a 2400 x 4800 raster of three sites holding the labels 0 and 2
C2_Witness ==
    \E r \in Req :
      /\ HasRaster(r)
      /\ Len(request[r].points) = 3
      /\ nearest_city[r].shape = << 2400, 4800 >>
      /\ \E c, d \in Samples(r) :
           nearest_city[r].labels[c] = 0 /\ nearest_city[r].labels[d] = 2

Malformed(e) == ~(e.kind = "array" /\ Len(e.items) = 4 /\ e.numeric)

\* request r is past the range logic of generate_voronoi_map
PastExtent(r) ==
    /\ world[r] # NoFile
    /\ pc[r] \in {"grid", "draw", "set_extent", "returned", "raised", "done"}

\* C4 as claimed: whenever the caller extent is absent or malformed, the
\* resolved extent is the bounding box of the dataset with the 5% margin,
\* clamped to [-180, 180] x [-90, 90] (bounds (0,10,0,10) give
\* (-0.5,10.5,-0.5,10.5)); no malformed value is used or makes it fail
C4_MalformedAutoExtent ==
    /\ auto_extent(Box(0, 0, 10, 10)) = << -500, 10500, -500, 10500 >>
    /\ \A r \in Req :
         PastExtent(r) /\ Malformed(request[r].extent) =>
           /\ extent[r] = ExtArray(auto_extent(world[r].bounds))
           /\ extent[r].items[1] >= -180 * Deg
           /\ extent[r].items[2] <= 180 * Deg
           /\ extent[r].items[3] >= -90 * Deg
           /\ extent[r].items[4] <= 90 * Deg

\* a resolved extent of zero width or zero height
Degenerate(e) ==
    /\ e.kind = "array" /\ Len(e.items) = 4 /\ e.numeric
    /\ e.items[1] = e.items[2] \/ e.items[3] = e.items[4]

\* C5 as claimed: a degenerate resolved extent is rejected before the grid
\* is generated: no grid, no raster and no image come from it
C5_DegenerateRejected ==
    \A r \in Req :
      Degenerate(extent[r]) =>
        /\ grid[r] = NoGrid
        /\ ~HasRaster(r)
        /\ response[r].status # 200

\* the resolution of request r is none of the tiers
InvalidTier(r) ==
    /\ pc[r] # "absent"
    /\ request[r].resolution \notin {"low", "medium", "high"}

\* C6 as claimed: a request with an invalid resolution tier is answered with
\* an error before generate_voronoi_map starts; no grid size is chosen and
\* no map is produced
C6_InvalidTierRejected ==
    \A r \in Req :
      InvalidTier(r) =>
        /\ pc[r] \in {"request", "done"}
        /\ args[r] = NoArgs
        /\ response[r].status # 200

\* C6 as amended: a request with an invalid resolution tier is not refused
\* for it: it is processed with the grid size of the medium tier,
\* 1200 x 2400
C6_InvalidTierIsMedium ==
    \A r \in Req :
      InvalidTier(r) =>
        /\ args[r] # NoArgs => args[r].lat_n = 1200 /\ args[r].lon_n = 2400
        /\ HasRaster(r) => nearest_city[r].shape = << 1200, 2400 >>
        /\ response[r].status = 400 =>
             response[r].detail \in {"JSON format error", "Colors count mismatch",
                                     "Points count must be between 2 and 30"}
        /\ response[r].status = 200 => response[r].image.shape = << 1200, 2400 >>

\* C6 witness: a request with an invalid tier received a 1200 x 2400 map
C6_Witness ==
    \E r \in Req :
      /\ InvalidTier(r)
      /\ response[r].status = 200
      /\ response[r].image.shape = << 1200, 2400 >>

\* request r has begun generate_voronoi_map and is past the load of the
\* reference dataset
PastLoad(r) ==
    pc[r] \in {"extent", "grid", "draw", "set_extent", "returned", "raised", "done"}
      /\ args[r] # NoArgs

\* C7: when the load of the reference dataset fails, the built-in dataset is
\* loaded exactly once and the computation goes on with it; when that load
\* fails too, no image is returned and the caller gets an error response
C7_FallbackOnce ==
    \A r \in Req :
      /\ default_loads[r] <= 1
      /\ PastLoad(r) /\ request[r].file.ok =>
           default_loads[r] = 0 /\ world[r].kind = "main"
      /\ PastLoad(r) /\ ~request[r].file.ok =>
           /\ default_loads[r] = 1
           /\ \/ world[r] = DefaultWorld
              \/ /\ world[r] = NoFile
                 /\ pc[r] \in {"raised", "done"}
                 /\ grid[r] = NoGrid /\ ~HasRaster(r)
                 /\ pc[r] = "done" =>
                      response[r].status = 500 /\ response[r].image = NoRaster
           /\ HasRaster(r) => world[r] = DefaultWorld
           /\ response[r].status = 200 => response[r].world = DefaultWorld

\* C7 witness: the upload could not be read and the caller received a map
\* drawn over the built-in dataset
C7_Witness ==
    \E r \in Req :
      /\ ~request[r].file.ok
      /\ default_loads[r] = 1
      /\ response[r].status = 200
      /\ response[r].world = DefaultWorld

\* C8 as claimed: a returned image implies that every step of the
\* invocation succeeded
C8_AllSurfaced ==
    \A r \in Req : response[r].status = 200 => swallowed[r] = {}

\* C8 as amended: three failures are printed and not surfaced (the read of
\* the uploaded reference dataset, replaced by the built-in one; the read or
\* drawing of the plugin map; applying the extent to the axes).  Every other
\* failure is surfaced as an error response without an image: a returned
\* image implies that every other step succeeded
C8_SurfacedButThree ==
    \A r \in Req :
      /\ swallowed[r] \subseteq {"read_world", "plugin", "set_extent"}
      /\ response[r].status = 200 =>
           /\ world[r].ok
           /\ ExtentTestable(request[r].extent)
           /\ ~Malformed(extent[r])
           /\ HasRaster(r)
           /\ response[r].image = nearest_city[r]
      /\ pc[r] = "done" /\ response[r].status # 200 =>
           /\ response[r].status \in {400, 500}
           /\ response[r].image = NoRaster

\* C8 witness: an image was returned although the upload could not be read,
\* the plugin map could not be drawn and the extent could not be applied
C8_Witness ==
    \E r \in Req :
      /\ response[r].status = 200
      /\ swallowed[r] = {"read_world", "plugin", "set_extent"}

\* C9 as claimed: for every interleaving of two requests, each invocation
\* reads the reference file and the plugin file its own request uploaded,
\* never bytes the other request wrote, and answers from them
C9_OwnFiles ==
    \A r \in Req :
      /\ world[r].owner \in {0, r}
      /\ plugin_map[r].owner \in {0, r}
      /\ response[r].world.owner \in {0, r}
      /\ response[r].plugin.owner \in {0, r}

\* C10 as claimed: for every extent that reaches grid construction, the
\* padded window is the extent widened by 10% of its width and height and
\* clamped to the legal bounds: every grid latitude lies in [-90, 90] and
\* every grid longitude in [-180, 180]
C10_GridInBounds ==
    \A r \in Req :
      grid[r] # NoGrid =>
        /\ LET e == extent[r].items
               pad_x == (e[2] - e[1]) \div 10
               pad_y == (e[4] - e[3]) \div 10
           IN  /\ grid[r].lats[0] = Max(-90 * Deg, Min(90 * Deg, e[3] - pad_y))
               /\ grid[r].lats[args[r].lat_n - 1]
                    = Max(-90 * Deg, Min(90 * Deg, e[4] + pad_y))
               /\ grid[r].lons[0] = Max(-180 * Deg, Min(180 * Deg, e[1] - pad_x))
               /\ grid[r].lons[args[r].lon_n - 1]
                    = Max(-180 * Deg, Min(180 * Deg, e[2] + pad_x))
        /\ \A i \in DOMAIN grid[r].lats :
             grid[r].lats[i] >= -90 * Deg /\ grid[r].lats[i] <= 90 * Deg
        /\ \A j \in DOMAIN grid[r].lons :
             grid[r].lons[j] >= -180 * Deg /\ grid[r].lons[j] <= 180 * Deg

====
